---- MODULE Spec2Model ----
(***************************************************************************)
(* ECDSA signature core of SimpleECDSA (src/src/signature.c).              *)
(*                                                                         *)
(* The state is that of a single-threaded caller: a curve, a digest, a     *)
(* private key, a public-key point and two signature objects, plus the     *)
(* frame of signature_sign while a call is in progress.  Arbitrary         *)
(* precision integers (mpz_t) are cells of mem; a signature object holds   *)
(* the addresses of its two cells, as struct signature_s does.             *)
(*                                                                         *)
(* Curve-point arithmetic, the modular inverse and the domain parameters   *)
(* live in other files of the repository; they are modelled from their     *)
(* contracts (the group law of y^2 = x^3 + ax + b over F_p).               *)
(***************************************************************************)
EXTENDS Integers, Sequences, FiniteSets, TLC

(***************************************************************************)
(* Bounds of the model.                                                    *)
(***************************************************************************)
\* digests range over 0..MaxMsg; 8 and 9 are too long for every curve below
MaxMsg == 9
\* signature_set_ui arguments of the verifying caller range over 0..MaxUi
MaxUi == 10
\* signature_set_ui arguments of the other callers range over 0..MaxUiValue
MaxUiValue == 1
\* release counts and the attempt counter saturate here
MaxCount == 3

(***************************************************************************)
(* Domain parameters: toy curves with base point G of prime order n.       *)
(*   1: y^2 = x^3 + 2x + 1 over F_5,  n = 7 (p < n); 3G, 4G have x = 0     *)
(*   2: y^2 = x^3 + 2x + 7 over F_11, n = 7 (p > n); G has x = 10 >= n,    *)
(*      2G has x = 7 = n                                                   *)
(*   3: y^2 = x^3 + 3x + 2 over F_5,  n = 5; every x is in 1..n-1          *)
(***************************************************************************)
Domains ==
  << [p |-> 5,  a |-> 2, b |-> 1, G |-> [x |-> 1,  y |-> 2, infinity |-> FALSE], n |-> 7],
     [p |-> 11, a |-> 2, b |-> 7, G |-> [x |-> 10, y |-> 2, infinity |-> FALSE], n |-> 7],
     [p |-> 5,  a |-> 3, b |-> 2, G |-> [x |-> 1,  y |-> 1, infinity |-> FALSE], n |-> 5] >>

(***************************************************************************)
(* GMP primitives, as signature.c uses them.                               *)
(***************************************************************************)
\* mpz_cmp: positive, zero or negative as a > b, a = b, a < b
mpz_cmp(a, b) == IF a > b THEN 1 ELSE IF a = b THEN 0 ELSE -1

\* mpz_sgn
mpz_sgn(a) == IF a > 0 THEN 1 ELSE IF a = 0 THEN 0 ELSE -1

\* mpz_mod: the non-negative remainder
mpz_mod(a, m) == a % m

\* mpz_sizeinbase(v, 2): the number of bits of v, and 1 for v = 0
RECURSIVE mpz_sizeinbase2(_)
mpz_sizeinbase2(v) == IF v < 2 THEN 1 ELSE 1 + mpz_sizeinbase2(v \div 2)

\* mpz_urandomm(k, state, bound): any value of 0..bound-1
mpz_urandomm(bound) == 0 .. (bound - 1)

\* digits of the strings handed to mpz_set_str
digit_value(c) ==
  CASE c = "0" -> 0
    [] c = "1" -> 1
    [] c = "a" -> 10
    [] OTHER -> 99

RECURSIVE str_value(_, _, _)
str_value(str, base, acc) ==
  IF str = << >> THEN acc
  ELSE str_value(Tail(str), base, acc * base + digit_value(Head(str)))

\* mpz_set_str(rop, str, base): the value of str in base, or rop unchanged
\* when str is empty or holds a digit that is not one of the base
mpz_set_str(old, str, base) ==
  IF str = << >> \/ \E i \in 1..Len(str) : digit_value(str[i]) >= base
  THEN old
  ELSE str_value(str, base, 0)

(***************************************************************************)
(* Number-theory collaborator: number_theory_inverse(R, A, P).             *)
(* The set of values R may hold afterwards: the inverse of A modulo P      *)
(* when there is one; the contract leaves R undefined otherwise.           *)
(***************************************************************************)
number_theory_inverse(A, P) ==
  LET S == { w \in 0..(P - 1) : (A * w) % P = 1 % P }
  IN  IF S # {} THEN S ELSE 0..(P - 1)

(***************************************************************************)
(* Curve-point collaborator: affine points with an infinity flag.          *)
(***************************************************************************)
\* point_init: the zero value, which is the point at infinity
point_init == [x |-> 0, y |-> 0, infinity |-> TRUE]

\* inverse in the field F_p (p prime, v not a multiple of p)
field_inverse(v, p) == CHOOSE z \in 1..(p - 1) : (v * z) % p = 1

\* point_addition(result, P, Q, curve): the group law
point_addition(P, Q, c) ==
  IF P.infinity THEN (IF Q.infinity THEN point_init ELSE Q)
  ELSE IF Q.infinity THEN P
  ELSE IF P.x = Q.x /\ (P.y + Q.y) % c.p = 0 THEN point_init
  ELSE LET lam == IF P.x = Q.x
                  THEN ((3 * P.x * P.x + c.a) * field_inverse(2 * P.y, c.p)) % c.p
                  ELSE ((Q.y - P.y) * field_inverse(Q.x - P.x, c.p)) % c.p
           x3  == (lam * lam - P.x - Q.x) % c.p
       IN  [x |-> x3, y |-> (lam * (P.x - x3) - P.y) % c.p, infinity |-> FALSE]

\* point_multiplication(R, multiple, P, curve): multiple * P
RECURSIVE point_multiplication(_, _, _)
point_multiplication(multiple, P, c) ==
  IF multiple = 0 \/ P.infinity THEN point_init
  ELSE point_addition(point_multiplication(multiple - 1, P, c), P, c)

(***************************************************************************)
(* State.                                                                  *)
(***************************************************************************)
VARIABLES
  curve,        \* index of the caller's domain_parameters in Domains
  message,      \* the caller's digest
  private_key,  \* the caller's private key
  public_key,   \* the caller's public-key point
  sigs,         \* signature objects: handle -> addresses of its r and s cells
  mem,          \* mpz cells: address -> value
  result,       \* handle -> what signature_verify last returned for it
  cmpres,       \* the last signature_cmp call: its arguments and return value
  copied,       \* handle -> the handle it was last copied from (0: none)
  pc,           \* position of the caller in signature_sign
  sig,          \* signature_sign's parameter sig (a handle)
  k, x, Q, r, s, t1, t2, t3,   \* signature_sign's temporaries
  life,         \* temporary -> "none" | "live" | "released"
  nrel,         \* temporary -> number of times it was released
  uar,          \* a temporary was read or written after its release
  r_state,      \* gmp_randstate_t: "none" | "seeded" | "cleared"
  attempts      \* signing attempts of the current call

caller  == <<curve, message, private_key, public_key>>
objects == <<sigs, mem>>
returns == <<result, cmpres, copied>>
frame   == <<sig, k, x, Q, r, s, t1, t2, t3, life, nrel, uar, r_state, attempts>>
vars    == <<caller, objects, returns, pc, frame>>

Handles == {1, 2}
Temps   == {"k", "x", "Q", "r", "t1", "t2", "t3", "s"}

\* the domain the caller works in
domain == Domains[curve]

\* the value of a signature object: (r, s) read through its cells
Val(h) == [r |-> mem[sigs[h].r], s |-> mem[sigs[h].s]]

\* a counter that saturates at MaxCount
Inc(c) == IF c < MaxCount THEN c + 1 ELSE c

\* the signature objects that share a cell with object h
Sharing(h) ==
  {g \in Handles : {sigs[g].r, sigs[g].s} \cap {sigs[h].r, sigs[h].s} # {}}

\* what the caller remembers of earlier calls is dropped when the objects
\* in H are written
Forget(H) ==
  /\ result' = [h \in Handles |-> IF h \in H THEN "none" ELSE result[h]]
  /\ cmpres' = IF cmpres # << >> /\ (cmpres[1] \in H \/ cmpres[2] \in H)
               THEN << >> ELSE cmpres

Uncopy(H) ==
  copied' = [h \in Handles |-> IF h \in H \/ copied[h] \in H THEN 0 ELSE copied[h]]

(***************************************************************************)
(* Initial states: signature_init has run for both signature objects       *)
(* (mpz_init sets 0), the public key is a fresh point, no call is active.  *)
(***************************************************************************)
InitObjects ==
  /\ public_key = point_init
  /\ sigs = [h \in Handles |-> [r |-> 2 * h - 1, s |-> 2 * h]]
  /\ mem = [c \in 1..4 |-> 0]
  /\ result = [h \in Handles |-> "none"]
  /\ cmpres = << >>
  /\ copied = [h \in Handles |-> 0]
  /\ pc = "idle"
  /\ sig = 1
  /\ k = 0 /\ x = 0 /\ Q = point_init /\ r = 0 /\ s = 0
  /\ t1 = 0 /\ t2 = 0 /\ t3 = 0
  /\ life = [t \in Temps |-> "none"]
  /\ nrel = [t \in Temps |-> 0]
  /\ uar = FALSE
  /\ r_state = "none"
  /\ attempts = 0

Init ==
  /\ curve \in DOMAIN Domains
  /\ message \in 0..MaxMsg
  /\ private_key \in 1..(Domains[curve].n - 1)
  /\ InitObjects

\* the caller is between calls
Idle == pc \in {"idle", "done"}

(***************************************************************************)
(* Signature value operations.                                             *)
(***************************************************************************)
\* signature_set_str(sig, r, s, base)
signature_set_str(h, rs, ss, base) ==
  /\ Idle
  /\ mem' = [mem EXCEPT ![sigs[h].r] = mpz_set_str(mem[sigs[h].r], rs, base),
                        ![sigs[h].s] = mpz_set_str(mem[sigs[h].s], ss, base)]
  /\ Forget(Sharing(h))
  /\ Uncopy(Sharing(h))
  /\ UNCHANGED <<caller, sigs, pc, frame>>

\* signature_set_hex(sig, r, s)
signature_set_hex(h, rs, ss) == signature_set_str(h, rs, ss, 16)

\* signature_set_ui(sig, r, s)
signature_set_ui(h, ur, us) ==
  /\ Idle
  /\ mem' = [mem EXCEPT ![sigs[h].r] = ur, ![sigs[h].s] = us]
  /\ Forget(Sharing(h))
  /\ Uncopy(Sharing(h))
  /\ UNCHANGED <<caller, sigs, pc, frame>>

\* a copy that assigns the struct, so that both objects share their cells
signature_copy_shallow(R, sg) ==
  /\ Idle
  /\ sigs' = [sigs EXCEPT ![R] = sigs[sg]]
  /\ Forget({R})
  /\ copied' = [h \in Handles |->
                  IF h = R THEN (IF sg = R THEN 0 ELSE sg)
                  ELSE IF copied[h] = R THEN 0 ELSE copied[h]]
  /\ UNCHANGED <<caller, mem, pc, frame>>

\* signature_copy(R, sig): mpz_set of both components
signature_copy(R, sg) ==
  /\ Idle
  /\ mem' = [mem EXCEPT ![sigs[R].r] = mem[sigs[sg].r],
                        ![sigs[R].s] = mem[sigs[sg].s]]
  /\ Forget(Sharing(R))
  /\ copied' = [h \in Handles |->
                  IF h = R THEN (IF sg = R THEN 0 ELSE sg)
                  ELSE IF h \in Sharing(R) \/ copied[h] \in Sharing(R) THEN 0
                  ELSE copied[h]]
  /\ UNCHANGED <<caller, sigs, pc, frame>>

\* the value signature_cmp returns for two signature values
signature_cmp_value(v1, v2) ==
  (mpz_cmp(v1.r, v2.r) = 0) /\ (mpz_cmp(v1.s, v2.s) = 0)

\* signature_cmp(sig1, sig2)
signature_cmp(h1, h2) ==
  /\ Idle
  /\ cmpres' = <<h1, h2, signature_cmp_value(Val(h1), Val(h2))>>
  /\ UNCHANGED <<caller, objects, result, copied, pc, frame>>

\* signature_generate_key(public_key, private_key, curve)
signature_generate_key ==
  /\ Idle
  /\ public_key' = point_multiplication(private_key, domain.G, domain)
  /\ result' = [h \in Handles |-> "none"]
  /\ UNCHANGED <<curve, message, private_key, objects, cmpres, copied, pc, frame>>

(***************************************************************************)
(* signature_sign, one action per block of the function.                   *)
(***************************************************************************)
\* mpz_clear / point_clear of the temporaries in S
Release(S) ==
  /\ life' = [t \in Temps |-> IF t \in S THEN "released" ELSE life[t]]
  /\ nrel' = [t \in Temps |-> IF t \in S THEN Inc(nrel[t]) ELSE nrel[t]]

\* some temporary of S is used although it is not live
Stale(S) == \E t \in S : life[t] # "live"

\* the assertion with < in place of <=
sign_precondition_strict(e, n) == mpz_sizeinbase2(e) < mpz_sizeinbase2(n)

\* the assertion of line 77
sign_precondition(e, n) == mpz_sizeinbase2(e) <= mpz_sizeinbase2(n)

\* lines 73-77: entry and the assertion on the bit length of the message
signature_sign_assert(h) ==
  /\ Idle
  /\ sig' = h
  /\ pc' = IF sign_precondition(message, domain.n) THEN "init" ELSE "aborted"
  \* a new frame: no temporary exists yet
  /\ k' = 0 /\ x' = 0 /\ Q' = point_init /\ r' = 0
  /\ t1' = 0 /\ t2' = 0 /\ t3' = 0 /\ s' = 0
  /\ life' = [t \in Temps |-> "none"]
  /\ nrel' = [t \in Temps |-> 0]
  /\ uar' = FALSE
  /\ r_state' = "none"
  /\ attempts' = 0
  /\ UNCHANGED <<caller, objects, returns>>

\* lines 80-89: the temporaries are initialised (mpz_init sets 0)
signature_sign_init ==
  /\ pc = "init"
  /\ k' = 0 /\ x' = 0 /\ Q' = point_init /\ r' = 0
  /\ t1' = 0 /\ t2' = 0 /\ t3' = 0 /\ s' = 0
  /\ life' = [t \in Temps |-> "live"]
  /\ pc' = "start"
  /\ UNCHANGED <<caller, objects, returns, sig, nrel, uar, r_state, attempts>>

\* lines 91-95: signature_sign_start, gmp_randinit_default and random_seeding
signature_sign_seed ==
  /\ pc = "start"
  /\ r_state' = "seeded"
  /\ attempts' = Inc(attempts)
  /\ pc' = "draw"
  /\ UNCHANGED <<caller, objects, returns,
                 sig, k, x, Q, r, s, t1, t2, t3, life, nrel, uar>>

\* lines 96-98: t1 = n - 2, k = mpz_urandomm(t1), gmp_randclear
signature_sign_draw ==
  /\ pc = "draw"
  /\ t1' = domain.n - 2
  /\ k' \in mpz_urandomm(t1')
  /\ r_state' = "cleared"
  /\ uar' = (uar \/ Stale({"t1", "k"}))
  /\ pc' = "mul"
  /\ UNCHANGED <<caller, objects, returns,
                 sig, x, Q, r, s, t2, t3, life, nrel, attempts>>

\* lines 100-103: Q = k*G, x = Q->x, point_clear(Q).  On a retry Q was
\* released by the attempt before: writing it, reading it and releasing it
\* again are undefined, so the call may stop there or go on with any x.
signature_sign_mul ==
  /\ pc = "mul"
  /\ \/ /\ life["Q"] = "live"
        /\ Q' = point_multiplication(k, domain.G, domain)
        /\ x' = Q'.x
        /\ uar' = (uar \/ Stale({"k", "x"}))
        /\ Release({"Q"})
        /\ pc' = "calc_r"
     \/ /\ life["Q"] # "live"
        /\ \E g \in 0..(domain.p - 1) :
             /\ Q' = [x |-> g, y |-> 0, infinity |-> FALSE]
             /\ x' = g
        /\ uar' = TRUE
        /\ Release({"Q"})
        /\ pc' = "calc_r"
     \/ /\ life["Q"] # "live"
        /\ uar' = TRUE
        /\ Release({"Q"})
        /\ pc' = "crashed"
        /\ UNCHANGED <<Q, x>>
  /\ UNCHANGED <<caller, objects, returns,
                 sig, k, r, s, t1, t2, t3, r_state, attempts>>

\* a retry that gives up after the second attempt
signature_sign_calc_r_capped ==
  /\ pc = "calc_r"
  /\ r' = mpz_mod(x, domain.n)
  /\ uar' = (uar \/ Stale({"r", "x"}))
  /\ pc' = IF mpz_sgn(r') = 0 /\ attempts < 2 THEN "start" ELSE "calc_s"
  /\ UNCHANGED <<caller, objects, returns,
                 sig, k, x, Q, s, t1, t2, t3, life, nrel, r_state, attempts>>

\* lines 105-108: r = x mod n, and back to signature_sign_start when r = 0
signature_sign_calc_r ==
  /\ pc = "calc_r"
  /\ r' = mpz_mod(x, domain.n)
  /\ uar' = (uar \/ Stale({"r", "x"}))
  /\ pc' = IF mpz_sgn(r') = 0 THEN "start" ELSE "calc_s"
  /\ UNCHANGED <<caller, objects, returns,
                 sig, k, x, Q, s, t1, t2, t3, life, nrel, r_state, attempts>>

\* lines 109-121: mpz_clear(x), s = k^-1 (e + d r) mod n, release of t1..t3
signature_sign_calc_s ==
  /\ pc = "calc_s"
  /\ \E inv \in number_theory_inverse(k, domain.n) :
       LET d_r   == private_key * r                 \* t2 = d*r
           e_d_r == message + d_r                   \* t3 = e + t2
           red   == mpz_mod(e_d_r, domain.n)        \* t2 = t3 mod n
           prod  == red * inv                       \* t3 = t2 * t1
       IN  /\ t1' = inv
           /\ t2' = red
           /\ t3' = prod
           /\ s' = mpz_mod(prod, domain.n)
  /\ uar' = (uar \/ Stale({"x", "k", "r", "t1", "t2", "t3", "s"}))
  /\ Release({"x", "t1", "t2", "t3"})
  /\ pc' = "set"
  /\ UNCHANGED <<caller, objects, returns, sig, k, x, Q, r, r_state, attempts>>

\* lines 123-131: the signature is written, k, r and s are released and
\* the call returns; the values of its temporaries go with the frame
signature_sign_set ==
  /\ pc = "set"
  /\ mem' = [mem EXCEPT ![sigs[sig].r] = r, ![sigs[sig].s] = s]
  /\ Forget(Sharing(sig))
  /\ Uncopy(Sharing(sig))
  /\ uar' = (uar \/ Stale({"k", "r", "s"}))
  /\ Release({"k", "r", "s"})
  /\ pc' = "done"
  /\ k' = 0 /\ x' = 0 /\ Q' = point_init /\ r' = 0
  /\ t1' = 0 /\ t2' = 0 /\ t3' = 0 /\ s' = 0
  /\ UNCHANGED <<caller, sigs, sig, r_state, attempts>>

(***************************************************************************)
(* signature_verify.                                                       *)
(***************************************************************************)
\* lines 136-146: the range test on r and s
verify_rejects_range(sv, n) ==
  /\ mpz_cmp(sv.r, 1) < 0
  /\ mpz_cmp(n, sv.r) <= 0
  /\ mpz_cmp(sv.s, 1) < 0
  /\ mpz_cmp(n, sv.s) <= 0

\* lines 163-175: x = u1*G + u2*Q for w = s^-1 mod n
verify_point(w, e, sv, pub, c) ==
  LET u1 == mpz_mod(mpz_mod(e, c.n) * w, c.n)
      u2 == mpz_mod(sv.r * w, c.n)
  IN  point_addition(point_multiplication(u1, c.G, c),
                     point_multiplication(u2, pub, c), c)

\* the comparison taken as a truth value, without "== 0"
verify_accepts_cmp_as_bool(sv, X) == (mpz_cmp(sv.r, X.x) # 0) /\ ~X.infinity

\* line 178: the result for the point X
verify_accepts(sv, X) == (mpz_cmp(sv.r, X.x) = 0) /\ ~X.infinity

\* the values signature_verify(message, sig, public_key, curve) may return
verify_returns(e, sv, pub, c) ==
  IF verify_rejects_range(sv, c.n) THEN {FALSE}
  ELSE { verify_accepts(sv, verify_point(w, e, sv, pub, c)) :
           w \in number_theory_inverse(sv.s, c.n) }

signature_verify(h) ==
  /\ Idle
  /\ \E ret \in verify_returns(message, Val(h), public_key, domain) :
       result' = [result EXCEPT ![h] = IF ret THEN "true" ELSE "false"]
  /\ UNCHANGED <<caller, objects, cmpres, copied, pc, frame>>

(***************************************************************************)
(* Callers.                                                                *)
(***************************************************************************)
\* the caller replaces s by s + 1 mod n in a copy of the signature just made
tamper_s ==
  /\ pc = "done"
  /\ signature_set_ui(2, Val(1).r, (Val(1).s + 1) % domain.n)

signature_sign ==
  \/ signature_sign_init
  \/ signature_sign_seed
  \/ signature_sign_draw
  \/ signature_sign_mul
  \/ signature_sign_calc_r
  \/ signature_sign_calc_s
  \/ signature_sign_set

\* set the signature object, sign once into it, then derive the key,
\* tamper and verify
Next ==
  \/ (pc = "idle" /\ \E ur, us \in {0, 1} : signature_set_ui(1, ur, us))
  \/ (pc = "idle" /\ signature_sign_assert(1))
  \/ signature_sign
  \/ signature_generate_key
  \/ tamper_s
  \/ \E h \in Handles : signature_verify(h)

Spec == Init /\ [][Next]_vars

(***************************************************************************)
(* Properties of signing and verification, checked under Spec.             *)
(***************************************************************************)
\* the public key that belongs to the caller's private key
KeyOfPrivate == point_multiplication(private_key, domain.G, domain)

\* C1: sign/verify round trip.  Once signature_sign has returned, verifying
\* the signature it wrote, for the same digest and under the public key
\* generated from the same private key, returns true.
C1_RoundTrip ==
  (pc = "done" /\ public_key = KeyOfPrivate /\ result[1] # "none")
    => result[1] = "true"

\* C3: when signature_sign has returned, the signature it wrote has
\* 1 <= r <= n-1 and 1 <= s <= n-1.
C3_SignatureInRange ==
  pc = "done" =>
    /\ Val(1).r \in 1..(domain.n - 1)
    /\ Val(1).s \in 1..(domain.n - 1)

\* C4: on every attempt the nonce handed to the scalar multiplication k*G
\* lies in [1, n-2].
C4_NonceInRange ==
  pc = "mul" => k \in 1..(domain.n - 2)

\* C9: when signature_sign has returned, every temporary has been released
\* exactly once and none was read or written after its release.
C9_TemporariesReleasedOnce ==
  pc = "done" =>
    /\ \A t \in Temps : life[t] = "released" /\ nrel[t] = 1
    /\ ~uar

\* the caller holds, in object 2, the signature of object 1 with s replaced
\* by s + 1 mod n, and has verified it under the signer's public key
TamperedVerified ==
  /\ pc = "done"
  /\ Val(2) = [r |-> Val(1).r, s |-> (Val(1).s + 1) % domain.n]
  /\ public_key = KeyOfPrivate
  /\ result[2] # "none"

SignedWithExactR ==
  \E kk \in 1..(domain.n - 1) :
    /\ point_multiplication(kk, domain.G, domain).x = Val(1).r
    /\ (Val(1).s * kk) % domain.n
         = (message + private_key * Val(1).r) % domain.n

NextSign ==
  \/ (pc = "idle" /\ signature_sign_assert(1))
  \/ signature_sign

FairSpec == Init /\ [][NextSign]_vars /\ WF_vars(signature_sign)

\* C7: signature_sign aborts exactly when the message has more bits than n;
\* it does so at its first step, before any temporary exists, before the
\* random state is initialised and before a nonce is drawn, and leaves the
\* signature objects as they were.
C7_FatalPrecondition ==
  /\ [](pc = "aborted" <=>
          (pc # "idle" /\ mpz_sizeinbase2(message) > mpz_sizeinbase2(domain.n)))
  /\ [](pc = "aborted" =>
          /\ attempts = 0
          /\ r_state = "none"
          /\ \A t \in Temps : life[t] = "none")
  /\ [][pc' = "aborted" => (pc = "idle" /\ mem' = mem /\ sigs' = sigs)]_vars

\* the call has aborted on a message that is too long, and the signature
\* object still holds what the caller had set
C7_Witness ==
  /\ pc = "aborted"
  /\ mpz_sizeinbase2(message) > mpz_sizeinbase2(domain.n)
  /\ attempts = 0
  /\ Val(1) = [r |-> 1, s |-> 1]

\* C10: an attempt with r = 0 goes back to signature_sign_start, however
\* many attempts were made; every attempt initialises and seeds the random
\* state before it draws and clears it after; an attempt with r # 0 goes on
\* to compute s, and the call then returns.
C10_RetryRule ==
  /\ [][pc = "calc_r" =>
          IF x % domain.n = 0 THEN pc' = "start" ELSE pc' = "calc_s"]_vars
  /\ [][pc = "start" => (pc' = "draw" /\ r_state' = "seeded")]_vars
  /\ [](pc = "draw" => r_state = "seeded")
  /\ [][pc = "draw" => (pc' = "mul" /\ r_state' = "cleared")]_vars
  /\ [][pc' = "draw" => pc = "start"]_vars
  /\ (pc = "calc_s") ~> (pc = "done")

\* a retry begins after MaxCount or more attempts
C10_Witness ==
  /\ pc = "start"
  /\ attempts = MaxCount
  /\ r = 0

(***************************************************************************)
(* Verification of arbitrary signatures: the caller sets object 1 with     *)
(* signature_set_ui and verifies it.                                       *)
(***************************************************************************)
NextVerify ==
  \/ \E ur, us \in 0..MaxUi : signature_set_ui(1, ur, us)
  \/ signature_generate_key
  \/ signature_verify(1)

SpecVerify == Init /\ [][NextVerify]_vars

\* C2: signature_verify returns false whenever r or s is outside [1, n-1].
C2_RangeValidation ==
  ( /\ result[1] # "none"
    /\ \/ Val(1).r \notin 1..(domain.n - 1)
       \/ Val(1).s \notin 1..(domain.n - 1) )
  => result[1] = "false"

\* C6: the signature (0, 0) is rejected for every message, key and domain.
C6_DegenerateRejected ==
  (result[1] # "none" /\ Val(1) = [r |-> 0, s |-> 0])
    => result[1] = "false"

(***************************************************************************)
(* Value operations on two signature objects, signing included.            *)
(***************************************************************************)
\* the strings and bases handed to signature_set_str
Strs  == { <<"1">>, <<"1", "a">> }
Bases == {10, 16}

InitValue ==
  /\ curve = 3
  /\ message = 1
  /\ private_key = 1
  /\ InitObjects

NextValue ==
  \/ \E h \in Handles : \E ur, us \in 0..MaxUiValue : signature_set_ui(h, ur, us)
  \/ \E h \in Handles : \E rs, ss \in Strs : \E base \in Bases :
       signature_set_str(h, rs, ss, base)
  \/ \E h \in Handles : \E rs, ss \in Strs : signature_set_hex(h, rs, ss)
  \/ \E R, sg \in Handles : signature_copy(R, sg)
  \/ \E h1, h2 \in Handles : signature_cmp(h1, h2)
  \/ \E h \in Handles : signature_sign_assert(h)
  \/ signature_sign

SpecValue == InitValue /\ [][NextValue]_vars

====
